---- MODULE Spec2Model ----
(***************************************************************************)
(* Model of adopy.base.Engine (src/adopy/base.py): the discretized         *)
(* posterior, the memoized mutual-information cache, Bayes updates and     *)
(* dynamic gridding (update_grid).                                          *)
(*                                                                         *)
(* Representation.  The model parameter is one-dimensional (one entry in   *)
(* Model.params), so the parameter grid is a sequence of numbers, the      *)
(* posterior covariance is a 1x1 matrix and det(cov) = var.  The design    *)
(* grid is {x = 0, x = 1} (rows "d0", "d1"); responses are {0, 1}.         *)
(*                                                                         *)
(* A log-vector (log_prior, log_post) is stored by its exponentials:       *)
(*   [ent |-> <<[n, e], ...>>, d |-> D, nrm |-> B]                          *)
(* If nrm = FALSE, exp(v[i]) = n_i * E(e_i) / D; if nrm = TRUE the vector   *)
(* is the result of "v -= logsumexp(v)" and exp(v[i]) = n_i * E(e_i) /     *)
(* Sum_j n_j * E(e_j).  E(one) = 1; E(expdens(x,m,c)) = e^pdf(x;m,c), the  *)
(* exponential of a normal density value (> 1 at a finite row x, 1 at     *)
(* x = +inf); E(dens(x,m,c)) = pdf(x;m,c).  Normalized vectors are kept   *)
(* with gcd(n) = 1, so equal records denote equal vectors.                *)
(***************************************************************************)
EXTENDS Integers, Sequences, FiniteSets, TLC

VARIABLES
    grid,        \* Engine.grid_param (1-D rows)
    isFrame,     \* grid_param is still the pandas DataFrame built in __init__
    logPrior,    \* Engine.log_prior
    logPost,     \* Engine.log_post
    flag,        \* Engine.flag_update_mutual_info
    mi,          \* Engine.mutual_info: the inputs it was computed from and its arg-max
    memory,      \* Engine.dg_memory
    dgMeans, dgCovs, dgGrids, dgPriors, dgPosts,  \* dynamic-grid history
    lseRaises,   \* whether the installed scipy's logsumexp raises on an empty array:
                 \* "unset" until an empty array first reaches it, then "yes" or "no"
    nUpd,        \* number of update calls so far (bounded)
    optSince,    \* last get_design('optimal') result since the last update/update_grid
    last         \* the call that produced this state, its arguments and outcome

vars == <<grid, isFrame, logPrior, logPost, flag, mi, memory, dgMeans, dgCovs,
          dgGrids, dgPriors, dgPosts, lseRaises, nUpd, optSince, last>>

\* ---------------------------------------------------------------- bounds
MaxUpdates == 1
MaxGridArg == 1
\* LogSpec: observation logs of two entries
LogUpdates == 2
\* FilterSpec: regrids from two candidate rows
FilterGridArg == 2

\* ---------------------------------------------------------------- inputs
DesignRows == <<"d0", "d1">>
DesignVal(dv) == IF dv = "d0" THEN 0 ELSE 1
Responses == {0, 1}
DesignInputs == {"d1", "bad"}           \* "bad": a design list whose length does not match task.designs
InitGrids == {<<0, 2>>, <<2>>}
\* +inf: the row norm.ppf(1) * r_inv + m of quantile 1 (above every finite row)
PosInf == 1000
\* the new rows g * r_inv + m (any real, or +-inf for quantiles 1 and 0), one per
\* class that the constraint, the likelihood and the density tell apart: -1 is
\* removed by the constraint (as is -inf), 0 is kept with P(y=1|d1) = 1/4 (any row
\* in [0, 1)), 2 is kept with P(y=1|d1) = 3/4 (any finite row >= 1), and PosInf is
\* kept with P(y=1|d1) = 3/4 and density pdf(+inf) = 0
ParamVals == {-1, 0, 2, PosInf}
\* r_inv in one dimension: +-sd for "eig" and "svd", sd for "none" and None; the new
\* rows range over ParamVals for each, so "eig" stands for all four accepted values
Rotations == {"eig", "bad"}
GridTypes == {"q", "z", "bad"}
PriorStrategies == {"recalc", "normal", "None", "bad"}
\* quantile lists of each length: all inside [0, 1], or with a last value outside it
GridArgs(maxG) == UNION {{[i \in 1..k |-> "in"], [i \in 1..k |-> IF i = k THEN "out" ELSE "in"]}
                         : k \in 1..maxG}
\* z-scores are used as given; their value only matters through the new rows (raw)
ZGridArgs(maxG) == {[i \in 1..k |-> "in"] : k \in 1..maxG}

\* ---------------------------------------------------------------- arithmetic
RECURSIVE GCD(_, _)
GCD(a, b) == IF b = 0 THEN a ELSE GCD(b, a % b)
Abs(a) == IF a < 0 THEN -a ELSE a
RECURSIVE SeqGCD(_)
SeqGCD(s) == IF s = <<>> THEN 0 ELSE GCD(Abs(Head(s)), SeqGCD(Tail(s)))
RECURSIVE SumSeq(_)
SumSeq(s) == IF s = <<>> THEN 0 ELSE Head(s) + SumSeq(Tail(s))
Rat(a, b) == LET g == GCD(Abs(a), Abs(b)) IN
             IF g = 0 THEN <<0, 1>> ELSE <<a \div g, b \div g>>
Range(s) == {s[i] : i \in DOMAIN s}

\* ---------------------------------------------------------------- user model
\* Model.compute with the user's probability function, as 4 * P(y = 1 | d, p)
ModelCompute(dv, x) == IF dv = "d0" THEN 2 ELSE IF x < 1 THEN 1 ELSE 3
\* log_lik_bernoulli: exp(log_lik[d, i, y]) = p^y (1 - p)^(1 - y), times 4
LikNum(dv, x, y) == IF y = 1 THEN ModelCompute(dv, x) ELSE 4 - ModelCompute(dv, x)
\* Model.constraint = {'p': lambda v: v >= 0}
Constraint(x) == x >= 0

\* ---------------------------------------------------------------- log-vectors
OneTag == [k |-> "one", x |-> 0, m |-> <<0, 1>>, c |-> <<0, 1>>]
Ns(v) == [i \in 1..Len(v.ent) |-> v.ent[i].n]
AllOne(v) == \A i \in 1..Len(v.ent) : v.ent[i].e.k = "one"
\* every entry has E = 1: "one", or e^pdf at a row +inf where the density is 0
AllUnitExp(v) == \A i \in 1..Len(v.ent) :
                    \/ v.ent[i].e.k = "one"
                    \/ (v.ent[i].e.k = "expdens" /\ v.ent[i].e.x = PosInf)
\* v -= logsumexp(v): canonical normalized form
Canon(ns, tags) ==
    LET g == SeqGCD(ns)
        q == [i \in 1..Len(ns) |-> IF g = 0 THEN ns[i] ELSE ns[i] \div g]
    IN [ent |-> [i \in 1..Len(ns) |-> [n |-> q[i], e |-> tags[i]]],
        d |-> SumSeq(q), nrm |-> TRUE]
\* lp = ones(N); lp - logsumexp(lp)
Uniform(N) == Canon([i \in 1..N |-> 1], [i \in 1..N |-> OneTag])
\* logsumexp(v) = 0: for nrm = FALSE with an expdens entry at a finite row the
\* exp-sum exceeds the sum of the n_i / D
Normalized(v) == Len(v.ent) > 0 /\ (v.nrm \/ (AllUnitExp(v) /\ SumSeq(Ns(v)) = v.d))
\* in-place "log_post += log_lik[idx_design, :, idx_response]" broadcasts iff
UpdBroadcast(N, Lp) == N = Lp \/ N = 1
\* variant reading the other response's likelihood slice
UpdateVecFlip(v, dv, y, g) ==
    Canon([i \in 1..Len(v.ent) |->
              v.ent[i].n * LikNum(dv, g[IF Len(g) = 1 THEN 1 ELSE i], 1 - y)],
          [i \in 1..Len(v.ent) |-> v.ent[i].e])
\* Engine.update lines 480-481 on a log-vector whose add broadcasts
UpdateVec(v, dv, y, g) ==
    Canon([i \in 1..Len(v.ent) |->
              v.ent[i].n * LikNum(dv, g[IF Len(g) = 1 THEN 1 ELSE i], y)],
          [i \in 1..Len(v.ent) |-> v.ent[i].e])

\* ---------------------------------------------------------------- posterior moments
\* post_mean = post . grid_param, post_cov = sum post_i (x_i - mean)^2 (all-"one" vectors)
WDen(v) == IF v.nrm THEN SumSeq(Ns(v)) ELSE v.d
WSumX(v, g) == SumSeq([i \in 1..Len(v.ent) |-> v.ent[i].n * g[i]])
PostMean(g, v) == Rat(WSumX(v, g), WDen(v))
CovNum(g, v) == SumSeq([i \in 1..Len(v.ent) |->
                    v.ent[i].n * (WDen(v) * g[i] - WSumX(v, g)) ^ 2])
PostCov(g, v) == Rat(CovNum(g, v), WDen(v) ^ 3)
\* np.linalg.det(cov) == 0
CovSingular(g, v) == CovNum(g, v) = 0

\* ---------------------------------------------------------------- mutual information
\* Shapes of "log_lik + lp" (Nd, N, Ny) + (1, Lp, 1) broadcast iff
MIBroadcast(N, Lp) == N = Lp \/ N = 1 \/ Lp = 1
\* Designs np.argmax(mutual_info) can return when the scores are computed from grid g
\* and log-vector v ({} when _update_mutual_info raises).  d0 has a constant
\* response probability, so its MI is 0; d1's MI is > 0 iff two grid rows give it
\* different probabilities (all posterior weights are positive; an unnormalized
\* posterior of mass S scales MI by S and shifts it by -S log S for every design, so
\* the arg-max is that of the normalized one).  Equal scores leave the choice to
\* floating-point rounding, except for one normalized row (post = [1.0] exactly,
\* every MI is exactly 0) and an empty grid (every MI is NaN): np.argmax gives d0.
FreshArgmax(g, v, lseR) ==
    LET N == Len(g)
        Lp == Len(v.ent)
    IN IF ~MIBroadcast(N, Lp) THEN {}
       ELSE IF N = 0 THEN (IF lseR = "yes" THEN {} ELSE {"d0"})
       ELSE IF N # Lp THEN {"d0", "d1"}
       ELSE IF \E i, j \in 1..N : ModelCompute("d1", g[i]) # ModelCompute("d1", g[j])
            THEN {"d1"}
       ELSE IF N = 1 /\ v.nrm THEN {"d0"}
       ELSE {"d0", "d1"}

\* variant that recomputes whatever the flag says
UpdateMutualInfoAlways(f, m, g, v, lseR) ==
    IF FreshArgmax(g, v, lseR) = {} THEN {[flag |-> f, mi |-> m, ok |-> FALSE]}
    ELSE {[flag |-> FALSE, mi |-> [has |-> TRUE, src |-> <<g, v>>, arg |-> a], ok |-> TRUE]
            : a \in FreshArgmax(g, v, lseR)}
\* Engine._update_mutual_info: possible [flag, mi, ok] after the call
UpdateMutualInfo(f, m, g, v, lseR) ==
    IF ~f THEN {[flag |-> f, mi |-> m, ok |-> TRUE]}
    ELSE IF FreshArgmax(g, v, lseR) = {} THEN {[flag |-> f, mi |-> m, ok |-> FALSE]}
    ELSE {[flag |-> FALSE, mi |-> [has |-> TRUE, src |-> <<g, v>>, arg |-> a], ok |-> TRUE]
            : a \in FreshArgmax(g, v, lseR)}

\* ---------------------------------------------------------------- dynamic gridding
\* variant without the prior check
ArgsValidNoPrior(rot, gt, pr) == rot \in {"eig", "svd", "none", "None"} /\ gt \in {"q", "z"}
ArgsValid(rot, gt, pr) ==
    rot \in {"eig", "svd", "none", "None"} /\ gt \in {"q", "z"} /\ pr \in {"recalc", "normal", "None"}
\* Engine._get_grid_axes: all(0 <= v <= 1 for v in grid)
QuantilesValid(garg) == \A i \in DOMAIN garg : garg[i] = "in"
\* variant without the constraint loop
FilterRowsNone(raw) == raw
\* grid_new = grid_new[list(map(f, grid_new[:, idx]))] for the constraint
RECURSIVE FilterRows(_)
FilterRows(raw) ==
    IF raw = <<>> THEN <<>>
    ELSE (IF Constraint(Head(raw)) THEN <<Head(raw)>> ELSE <<>>) \o FilterRows(Tail(raw))
\* self.grid_param = np.concatenate([self.grid_param, grid_new]) if append else grid_new
NewGrid(old, F, app) == IF app THEN old \o F ELSE F
DensTag(k, x, m, c) == [k |-> k, x |-> x, m |-> m, c |-> c]
\* log_prior = mvnm.pdf(grid_new, mean=m, cov=cov): the density values themselves
ExpDensVec(F, m, c) ==
    [ent |-> [i \in 1..Len(F) |-> [n |-> 1, e |-> DensTag("expdens", F[i], m, c)]],
     d |-> 1, nrm |-> FALSE]
\* np.concatenate([self.log_post.copy(), mvnm_prior]) with log_post = U
ConcatDens(U, F, m, c) ==
    IF Len(F) = 0 THEN U
    ELSE [ent |-> U.ent \o [i \in 1..Len(F) |-> [n |-> U.d, e |-> DensTag("expdens", F[i], m, c)]],
          d |-> U.d, nrm |-> FALSE]
\* for d, y in self.dg_memory: self.update(d, y, False)
RECURSIVE Replay(_, _, _, _)
Replay(mem, v, g, f) ==
    IF mem = <<>> THEN [v |-> v, f |-> f, ok |-> TRUE]
    ELSE IF Head(mem)[1] = "bad" THEN [v |-> v, f |-> f, ok |-> FALSE]
    ELSE Replay(Tail(mem), UpdateVec(v, Head(mem)[1], Head(mem)[2], g), g, TRUE)
\* variant appending the posterior to the priors list
RecordHistorySwap(m, c, F, pri, pos) ==
    [means |-> Append(dgMeans, m), covs |-> Append(dgCovs, c), grids |-> Append(dgGrids, F),
     priors |-> Append(dgPriors, pos), posts |-> Append(dgPosts, pos)]
\* the five dg_* appends
RecordHistory(m, c, F, pri, pos) ==
    [means |-> Append(dgMeans, m), covs |-> Append(dgCovs, c), grids |-> Append(dgGrids, F),
     priors |-> Append(dgPriors, pri), posts |-> Append(dgPosts, pos)]

\* ---------------------------------------------------------------- calls
NoPrev == [has |-> FALSE, ret |-> "-", mi |-> [has |-> FALSE, src |-> <<<<>>, Uniform(0)>>, arg |-> "-"]]
NoMI == NoPrev.mi
Call == [op |-> "init", outcome |-> "ok", d |-> "-", y |-> -1, store |-> FALSE,
         kind |-> "-", ret |-> "-", prev |-> NoPrev, pr |-> "-", app |-> FALSE,
         valid |-> FALSE, qbad |-> FALSE, raw |-> <<>>, F |-> <<>>, built |-> FALSE]

Init ==
    /\ grid \in InitGrids
    /\ isFrame = TRUE
    /\ logPrior = Uniform(Len(grid))
    /\ logPost = logPrior
    /\ flag = TRUE
    /\ mi = NoMI
    /\ memory = <<>>
    /\ dgMeans = <<>> /\ dgCovs = <<>> /\ dgGrids = <<>>
    /\ dgPriors = <<>> /\ dgPosts = <<>>
    /\ lseRaises = "unset"
    /\ nUpd = 0
    /\ optSince = NoPrev
    /\ last = Call

\* Engine.update(design, response, store)
Update(maxU) ==
    \E dv \in DesignInputs, store \in BOOLEAN :
    \E y \in IF dv = "bad" THEN {0} ELSE Responses :
      LET ok == /\ dv # "bad"
                /\ UpdBroadcast(Len(grid), Len(logPost.ent))
                /\ ~(Len(logPost.ent) = 0 /\ lseRaises = "yes")
      IN
      /\ nUpd < maxU
      /\ nUpd' = nUpd + 1
      /\ memory' = IF store THEN Append(memory, <<dv, y>>) ELSE memory
      /\ logPost' = IF ok THEN UpdateVec(logPost, dv, y, grid) ELSE logPost
      /\ flag' = IF ok THEN TRUE ELSE flag
      /\ optSince' = NoPrev
      /\ last' = [Call EXCEPT !.op = "update", !.outcome = IF ok THEN "ok" ELSE "raised",
                              !.d = dv, !.y = y, !.store = store]
      /\ UNCHANGED <<grid, isFrame, logPrior, mi, dgMeans, dgCovs, dgGrids,
                     dgPriors, dgPosts, lseRaises>>

\* Engine.get_design(kind)
GetDesign ==
    \E kind \in {"optimal", "random", "bad"} :
      LET base == [Call EXCEPT !.op = "get_design", !.kind = kind] IN
      /\ CASE kind = "bad" ->
                /\ last' = [base EXCEPT !.outcome = "raised"]
                /\ UNCHANGED <<flag, mi, optSince>>
           [] kind = "random" ->
                \E r \in Range(DesignRows) :
                  /\ last' = [base EXCEPT !.ret = r]
                  /\ UNCHANGED <<flag, mi, optSince>>
           [] kind = "optimal" ->
                \E res \in UpdateMutualInfo(flag, mi, grid, logPost, lseRaises) :
                  /\ flag' = res.flag
                  /\ mi' = res.mi
                  /\ IF res.ok
                     THEN /\ last' = [base EXCEPT !.ret = res.mi.arg, !.prev = optSince]
                          /\ optSince' = [has |-> TRUE, ret |-> res.mi.arg, mi |-> res.mi]
                     ELSE /\ last' = [base EXCEPT !.outcome = "raised"]
                          /\ UNCHANGED optSince
      /\ UNCHANGED <<grid, isFrame, logPrior, logPost, memory, dgMeans, dgCovs,
                     dgGrids, dgPriors, dgPosts, lseRaises, nUpd>>

\* Engine.update_grid(grid, rotation, grid_type, prior, append)
UpdateGrid(maxG) ==
    \E rot \in Rotations, gt \in GridTypes, pr \in PriorStrategies :
    \* the grid list is first read after the argument and post_cov checks: a call that
    \* fails the argument checks behaves the same for every list, so one stands for
    \* all; once grid_param is a numpy array post_cov raises before the list is read,
    \* so one list inside and one outside [0, 1] stand for all
    \E garg \in IF ~ArgsValid(rot, gt, pr) THEN {<<"in">>}
                ELSE IF ~isFrame THEN (IF gt = "q" THEN {<<"in">>, <<"out">>} ELSE {<<"in">>})
                ELSE IF gt = "q" THEN GridArgs(maxG) ELSE ZGridArgs(maxG) :
      \* the call's argument classes, recorded as given
      LET base == [Call EXCEPT !.op = "update_grid",
                     !.valid = (rot # "bad" /\ gt # "bad" /\ pr # "bad"),
                     !.qbad = (gt = "q" /\ \E i \in DOMAIN garg : garg[i] = "out")]
          \* (append only matters once these checks pass)
          \* lines 527-534; post_cov reads grid_param.values (line 340), which a
          \* numpy grid_param lacks; line 539; _get_grid_axes (line 507)
          stop == \/ ~ArgsValid(rot, gt, pr)
                  \/ ~isFrame
                  \/ CovSingular(grid, logPost)
                  \/ (gt = "q" /\ ~QuantilesValid(garg))
      IN
      /\ optSince' = NoPrev
      /\ IF stop
         THEN /\ last' = [base EXCEPT !.outcome =
                            IF ArgsValid(rot, gt, pr) /\ isFrame /\ CovSingular(grid, logPost)
                            THEN "aborted" ELSE "raised"]
              /\ UNCHANGED <<grid, isFrame, logPrior, logPost, flag, dgMeans, dgCovs,
                             dgGrids, dgPriors, dgPosts, lseRaises>>
         ELSE \E app \in BOOLEAN, raw \in [1..Len(garg) -> ParamVals] :
              LET F == FilterRows(raw)
                  g2 == NewGrid(grid, F, app)
                  m == PostMean(grid, logPost)
                  c == PostCov(grid, logPost)
                  h == RecordHistory(m, c, F, logPrior, logPost)
                  U == Uniform(Len(g2))
                  rp == Replay(memory, U, g2, flag)
                  built == [base EXCEPT !.pr = pr, !.app = app, !.raw = raw, !.F = F,
                                      !.built = TRUE]
              IN
              /\ grid' = g2
              /\ isFrame' = FALSE
              /\ dgMeans' = h.means /\ dgCovs' = h.covs /\ dgGrids' = h.grids
              /\ dgPriors' = h.priors /\ dgPosts' = h.posts
              /\ IF Len(g2) = 0 /\ lseRaises = "unset"
                 THEN lseRaises' \in {"yes", "no"} ELSE UNCHANGED lseRaises
              /\ CASE Len(g2) = 0 /\ lseRaises' = "yes" ->    \* _initialize: logsumexp([])
                        /\ UNCHANGED <<logPrior, logPost, flag>>
                        /\ last' = [built EXCEPT !.outcome = "raised"]
                   [] pr = "recalc" ->
                        /\ logPrior' = U
                        /\ logPost' = rp.v
                        /\ flag' = rp.f
                        /\ last' = [built EXCEPT !.outcome = IF rp.ok THEN "ok" ELSE "raised"]
                   [] pr = "normal" /\ app /\ Len(F) = 1 ->   \* pdf of one row is a 0-d scalar
                        /\ logPrior' = U /\ logPost' = U
                        /\ UNCHANGED flag
                        /\ last' = [built EXCEPT !.outcome = "raised"]
                   [] pr = "normal" ->
                        LET P == IF app THEN ConcatDens(U, F, m, c) ELSE ExpDensVec(F, m, c) IN
                        /\ logPrior' = P /\ logPost' = P
                        /\ UNCHANGED flag
                        /\ last' = built
                   [] OTHER ->                               \* prior is None
                        /\ logPrior' = U /\ logPost' = U
                        /\ UNCHANGED flag
                        /\ last' = built
      /\ UNCHANGED <<mi, memory, nUpd>>

NextWith(maxU, maxG) == Update(maxU) \/ GetDesign \/ UpdateGrid(maxG)

Next == NextWith(MaxUpdates, MaxGridArg)

Spec == Init /\ [][Next]_vars

\* Once an update_grid call has built a grid, grid_param is a numpy array and every
\* later update_grid raises at post_cov (line 537): a call can only build from the
\* DataFrame state.  These specifications follow the behaviours of Spec up to that
\* first built grid (every step starts with isFrame), with a larger bound on what
\* their claim is about: the log's length (LogSpec, with one-row grid lists) or
\* the number of candidate rows (FilterSpec, with one update).
LogSpec == Init /\ [][isFrame /\ NextWith(LogUpdates, 1)]_vars
FilterSpec == Init /\ [][isFrame /\ NextWith(1, FilterGridArg)]_vars
\* ================================================================ properties
ValidCall(l, op) == l.op = op /\ l.outcome = "ok"
OptimalOk(l) == ValidCall(l, "get_design") /\ l.kind = "optimal"
Built(l) == l.op = "update_grid" /\ l.built
HistVars == <<dgMeans, dgCovs, dgGrids, dgPriors, dgPosts>>
Last(s) == s[Len(s)]
IsPrefix(a, b) == Len(a) <= Len(b) /\ SubSeq(b, 1, Len(a)) = a

\* C1: after every update and every update_grid that completes, logsumexp(log_post) = 0.
C1_PostNormalized ==
    (last.op \in {"update", "update_grid"} /\ last.outcome = "ok") => Normalized(logPost)

\* C2: the design get_design('optimal') returns is an arg-max of the mutual
\* information computed from the current likelihood tensor and posterior.
C2_OptimalIsFresh ==
    OptimalOk(last) => last.ret \in FreshArgmax(grid, logPost, lseRaises)

\* C3: two get_design('optimal') calls with no update or update_grid in between
\* return the same design and leave the mutual information unchanged.
C3_OptimalIdempotent ==
    (OptimalOk(last) /\ last.prev.has) => (last.ret = last.prev.ret /\ mi = last.prev.mi)
C3_Witness == OptimalOk(last) /\ last.prev.has

\* the posterior covariance post_cov is singular (exact arithmetic); e^pdf > 1, so
\* an unnormalized density vector has mass S > 1 and mean S * x for equal rows x
CovIsSingular(g, v) ==
    /\ Len(g) = Len(v.ent)
    /\ \A i \in 1..Len(g) : g[i] # PosInf      \* a +inf row makes the moments NaN
    /\ IF AllOne(v) THEN CovNum(g, v) = 0
       ELSE /\ \A i, j \in 1..Len(g) : g[i] = g[j]
            /\ (g[1] = 0 \/ v.nrm)

\* C4: update_grid with valid arguments and a singular posterior covariance raises
\* nothing and changes neither grid, prior, posterior, log nor history.
C4_SingularIsNoOp ==
    [][(last'.op = "update_grid" /\ last'.valid /\ CovIsSingular(grid, logPost))
         => /\ last'.outcome = "aborted"
            /\ UNCHANGED <<grid, logPrior, logPost, memory, HistVars>>]_vars

InvalidCall(l) ==
    \/ (l.op = "get_design" /\ l.kind = "bad")
    \/ (l.op = "update_grid" /\ (~l.valid \/ l.qbad))
EngineKept == UNCHANGED <<grid, logPrior, logPost, flag, HistVars>>

\* C5 (as stated): invalid get_design kinds and invalid update_grid arguments
\* (rotation, grid_type, prior, quantiles outside [0, 1]) raise and change nothing.
C5_InvalidRaises ==
    [][InvalidCall(last') => (last'.outcome = "raised" /\ EngineKept)]_vars

\* C5 (amended): invalid arguments never change the engine state, and the call raises,
\* except exactly when update_grid gets recognized rotation, grid_type and prior with
\* quantiles outside [0, 1] while grid_param is still the constructed DataFrame and
\* the posterior covariance is singular: then it returns silently (line 539).
C5_InvalidKeepsState ==
    [][InvalidCall(last') =>
         /\ EngineKept
         /\ last'.outcome = IF last'.valid /\ isFrame /\ CovIsSingular(grid, logPost)
                            THEN "aborted" ELSE "raised"]_vars
C5_Witness == last.op = "update_grid" /\ last.valid /\ last.qbad /\ last.outcome = "aborted"

\* C6: an update that fails to resolve its design leaves the log and posterior as they were.
C6_UpdateAllOrNothing ==
    [][(last'.op = "update" /\ last'.outcome = "raised")
         => (memory' = memory /\ logPost' = logPost)]_vars

\* the uniform prior on g updated by every (d, y) of mem: prod_k p(y_k | d_k, x_i)
RECURSIVE LikProd(_, _)
LikProd(mem, x) == IF mem = <<>> THEN 1
                   ELSE LikNum(Head(mem)[1], x, Head(mem)[2]) * LikProd(Tail(mem), x)
PostFromLog(mem, g) ==
    Canon([i \in 1..Len(g) |-> LikProd(mem, g[i])], [i \in 1..Len(g) |-> OneTag])

\* C7: update(d, y, store) appends exactly (d, y) when store and nothing otherwise; no
\* other call changes the log; a completed recalc regrid keeps the log and leaves the
\* posterior equal to the uniform prior on the new grid updated by every logged pair.
C7_LogAndRecalc ==
    [][/\ (last'.op = "update" =>
             memory' = IF last'.store THEN Append(memory, <<last'.d, last'.y>>) ELSE memory)
       /\ (last'.op # "update" => memory' = memory)
       /\ ((ValidCall(last', "update_grid") /\ last'.pr = "recalc")
             => logPost' = PostFromLog(memory, grid'))]_vars
C7_Witness == ValidCall(last, "update_grid") /\ last.pr = "recalc" /\ Len(memory) >= 2
              /\ logPost # Uniform(Len(grid))

\* C8: an update_grid that passes its checks appends one snapshot to each history list,
\* holding the mean, covariance, new rows, prior and posterior from just before it;
\* no call changes an earlier entry, and no other call appends.
C8_HistorySnapshots ==
    [][/\ IsPrefix(dgMeans, dgMeans') /\ IsPrefix(dgCovs, dgCovs')
       /\ IsPrefix(dgGrids, dgGrids') /\ IsPrefix(dgPriors, dgPriors')
       /\ IsPrefix(dgPosts, dgPosts')
       /\ IF Built(last')
          THEN /\ Len(dgMeans') = Len(dgMeans) + 1 /\ Len(dgCovs') = Len(dgCovs) + 1
               /\ Len(dgGrids') = Len(dgGrids) + 1 /\ Len(dgPriors') = Len(dgPriors) + 1
               /\ Len(dgPosts') = Len(dgPosts) + 1
               /\ Last(dgMeans') = PostMean(grid, logPost)
               /\ Last(dgCovs') = PostCov(grid, logPost)
               /\ Last(dgGrids') = last'.F
               /\ Last(dgPriors') = logPrior
               /\ Last(dgPosts') = logPost
          ELSE UNCHANGED HistVars]_vars
C8_Witness == Built(last) /\ dgPriors[1] # dgPosts[1]

\* C9: after a completed 'normal' regrid the log-prior holds log pdf(row; m, cov) for each
\* new row, its length is the number of grid rows, and the log-posterior equals it.
C9_NormalPrior ==
    (ValidCall(last, "update_grid") /\ last.pr = "normal") =>
      /\ Len(logPrior.ent) = Len(grid)
      /\ \A i \in 1..Len(last.F) :
           logPrior.ent[Len(logPrior.ent) - Len(last.F) + i].e
             = DensTag("dens", last.F[i], Last(dgMeans), Last(dgCovs))
      /\ logPost = logPrior

\* C10: the rows an update_grid adds all satisfy Model.constraint; the new grid is the
\* filtered rows, after the old grid when append is set.
\* the positions of raw that satisfy the constraint, and the k-th smallest of them
Feasible(raw) == {i \in DOMAIN raw : Constraint(raw[i])}
KthFeasible(raw, k) ==
    CHOOSE i \in Feasible(raw) : Cardinality({j \in Feasible(raw) : j <= i}) = k
====
